---- MODULE Spec2Model ----
(***************************************************************************)
(* State-machine model of btrfs-smr-balance.py: the start-up mount check,  *)
(* bal_chunk (telemetry snapshot, stdev test, least-empty device, one      *)
(* "btrfs balance" call, cooldown on failure) and the main loop with its   *)
(* fibonacci backoff.                                                      *)
(*                                                                         *)
(* Units: times are whole seconds; sizes are whole GiB (the script reads   *)
(* bytes; STDEV_LIMIT = 5*1024*1024*1024 bytes is 5 in these units).       *)
(***************************************************************************)
EXTENDS Integers, Sequences, FiniteSets, TLC

(* ---------------------------------------------------------------- config *)

FILESYSTEM == "/media/btrfs"
CHUNK_TIMEOUT == 60
MAX_SLEEP == 7200
STDEV_LIMIT == 5
COOLDOWN == 30

(* ---------------------------------------------------------------- bounds *)

MaxDevs == 3
MaxParts == 2
MaxRun == 20
MaxFibArg == 21
SeqLen == 24

Sizes == {10, 15}
Useds == {5, 10}
TelemetryTimes == {0, 1}
BalanceTimes == {30, 60, 61}
RetCodes == {0, 1}

(* ------------------------------------------------------- inputs (bounded) *)

RECURSIVE SeqsUpTo(_, _)
SeqsUpTo(S, n) ==
    IF n = 0 THEN {<< >>}
    ELSE LET shorter == SeqsUpTo(S, n - 1)
         IN  shorter \cup {Append(s, x) : s \in {t \in shorter : Len(t) = n - 1}, x \in S}

Readings == {r \in [size : Sizes, used : Useds] : r.used <= r.size}

RawSnapshots == SeqsUpTo(Readings, MaxDevs)

\* one "devid" line per device: devid and path are given by the line's position
Snapshots ==
    {[i \in 1..Len(s) |-> [devid |-> i, size |-> s[i].size, used |-> s[i].used, path |-> i]] :
        s \in RawSnapshots}

Partitions == [mountpoint : {FILESYSTEM, "/"}, fstype : {"btrfs", "ext4"}]

PartitionLists == SeqsUpTo(Partitions, MaxParts)

(* ------------------------------------------------------------- functions *)

\* @lru_cache: results by argument; nothing is evicted below 128 entries
EmptyCache == [k \in {} |-> 0]

\* "return fib(n-2) + fib(n-1)" given what the two calls returned, a then b:
\* the sum, stored under n in the cache the second call left
Store(a, b, n) == [v |-> a.v + b.v, c |-> (n :> (a.v + b.v)) @@ b.c]

\* as cached_fib with the sequence started at 0, 1
RECURSIVE cached_fib_from_zero(_, _)
cached_fib_from_zero(c, n) ==
    IF n \in DOMAIN c THEN [v |-> c[n], c |-> c]
    ELSE IF n < 2 THEN [v |-> n, c |-> (n :> n) @@ c]
    ELSE CHOOSE r \in UNION {{Store(a, b, n) : b \in {cached_fib_from_zero(a.c, n - 1)}} :
                             a \in {cached_fib_from_zero(c, n - 2)}} : TRUE

\* one call of the decorated fib with cache c: the value returned (v) and the
\* cache afterwards (c); fib(n-2) is evaluated before fib(n-1), each once (the
\* singleton sets bind a to the first call's result and b to the second's)
RECURSIVE cached_fib(_, _)
cached_fib(c, n) ==
    IF n \in DOMAIN c THEN [v |-> c[n], c |-> c]
    ELSE IF n < 2 THEN [v |-> 1, c |-> (n :> 1) @@ c]
    ELSE CHOOSE r \in UNION {{Store(a, b, n) : b \in {cached_fib(a.c, n - 1)}} :
                             a \in {cached_fib(c, n - 2)}} : TRUE

\* the value of fib(n); in the loop the function is used by value, as computed
\* from an empty cache
fib(n) == cached_fib(EmptyCache, n).v

RECURSIVE SumSeq(_)
SumSeq(s) == IF s = << >> THEN 0 ELSE Head(s) + SumSeq(Tail(s))

\* unallocated = size - used
Unallocated(d) == d.size - d.used

\* the list "free" built by the for loop of bal_chunk
FreeList(devs) == [i \in 1..Len(devs) |-> Unallocated(devs[i])]

\* least_empty_dev_* before the loop: None, None, float('inf')
NoDevice == [devid |-> 0, path |-> 0, inf |-> TRUE, unallocated |-> 0]

\* as ScanStep with ">": the device with the most free space is kept
ScanStepMostFree(best, d) ==
    IF best.inf \/ Unallocated(d) > best.unallocated
    THEN [devid |-> d.devid, path |-> d.path, inf |-> FALSE, unallocated |-> Unallocated(d)]
    ELSE best

\* as ScanStep with "<=": a later device with the same free space replaces the first
ScanStepLastWins(best, d) ==
    IF best.inf \/ Unallocated(d) <= best.unallocated
    THEN [devid |-> d.devid, path |-> d.path, inf |-> FALSE, unallocated |-> Unallocated(d)]
    ELSE best

\* "if unallocated < least_empty_dev_unallocated" and the three assignments
ScanStep(best, d) ==
    IF best.inf \/ Unallocated(d) < best.unallocated
    THEN [devid |-> d.devid, path |-> d.path, inf |-> FALSE, unallocated |-> Unallocated(d)]
    ELSE best

RECURSIVE Scan(_, _, _)
Scan(devs, i, best) ==
    IF i > Len(devs) THEN best ELSE Scan(devs, i + 1, ScanStep(best, devs[i]))

LeastEmpty(devs) == Scan(devs, 1, NoDevice)

\* statistics.stdev: sum of squared deviations from the mean over n - 1, square
\* root.  Kept exact by scaling with n: n*n*ss = sum of (n*x - sum)^2.
ScaledDev(free) ==
    LET n == Len(free)
        s == SumSeq(free)
    IN  [i \in 1..n |-> (n * free[i] - s) * (n * free[i] - s)]

\* as StdevRaises for a dispersion defined on a single value (pstdev)
StdevRaisesOnEmpty(free) == Len(free) < 1

\* statistics.stdev raises StatisticsError for fewer than two values
StdevRaises(free) == Len(free) < 2

\* as StdevBelow with "<=": a dispersion equal to the limit counts as converged
StdevAtMost(free, limit) ==
    LET n == Len(free)
    IN  SumSeq(ScaledDev(free)) <= limit * limit * n * n * (n - 1)

\* as StdevBelow with the test inverted
StdevAbove(free, limit) ==
    LET n == Len(free)
    IN  SumSeq(ScaledDev(free)) > limit * limit * n * n * (n - 1)

\* "stdev < STDEV_LIMIT" for a list of at least two values:
\* sqrt(ss / (n-1)) < limit  <=>  n*n*ss < limit^2 * n*n*(n-1)
StdevBelow(free, limit) ==
    LET n == Len(free)
    IN  SumSeq(ScaledDev(free)) < limit * limit * n * n * (n - 1)

\* as NextBackoff, testing fib(backoff) instead of fib(backoff + 1)
NextBackoffLateCap(b, dur) ==
    IF dur > CHUNK_TIMEOUT
    THEN IF fib(b) < MAX_SLEEP THEN b + 1 ELSE b
    ELSE IF b > 1 THEN b - 2
         ELSE IF b > 0 THEN b - 1
         ELSE b

\* as NextBackoff, comparing the index instead of its sleep time with MAX_SLEEP
NextBackoffIndexCap(b, dur) ==
    IF dur > CHUNK_TIMEOUT
    THEN IF b + 1 < MAX_SLEEP THEN b + 1 ELSE b
    ELSE IF b > 1 THEN b - 2
         ELSE IF b > 0 THEN b - 1
         ELSE b

\* as NextBackoff, without the MAX_SLEEP test
NextBackoffNoCap(b, dur) ==
    IF dur > CHUNK_TIMEOUT
    THEN b + 1
    ELSE IF b > 1 THEN b - 2
         ELSE IF b > 0 THEN b - 1
         ELSE b

\* as NextBackoff with ">=": a chunk of exactly CHUNK_TIMEOUT seconds counts as slow
NextBackoffSlowAtTimeout(b, dur) ==
    IF dur >= CHUNK_TIMEOUT
    THEN IF fib(b + 1) < MAX_SLEEP THEN b + 1 ELSE b
    ELSE IF b > 1 THEN b - 2
         ELSE IF b > 0 THEN b - 1
         ELSE b

\* as NextBackoff, stepping down by one only
NextBackoffSymmetric(b, dur) ==
    IF dur > CHUNK_TIMEOUT
    THEN IF fib(b + 1) < MAX_SLEEP THEN b + 1 ELSE b
    ELSE IF b > 0 THEN b - 1
         ELSE b

\* the backoff adjustment of the main loop
NextBackoff(b, dur) ==
    IF dur > CHUNK_TIMEOUT
    THEN IF fib(b + 1) < MAX_SLEEP THEN b + 1 ELSE b
    ELSE IF b > 1 THEN b - 2
         ELSE IF b > 0 THEN b - 1
         ELSE b

\* fib_sleep(index): the seconds it sleeps
fib_sleep(index) == fib(index)

\* as SleepAfter, sleeping for the index held before the adjustment
SleepAfterOld(before, after) == fib_sleep(before)

\* both branches of the adjustment end in fib_sleep(backoff), backoff already adjusted
SleepAfter(before, after) == fib_sleep(after)

\* as Returned, for a command started without waiting for it
ReturnedNotAwaited(n) == n

\* subprocess.getstatusoutput starts the command ...
Started(n) == n + 1

\* ... and returns only when the command has ended
Returned(n) == n - 1

\* as FirstMounted without the break: the last partition mounted at FILESYSTEM decides
RECURSIVE LastMounted(_, _)
LastMounted(parts, i) ==
    IF i > Len(parts) THEN 0
    ELSE LET later == LastMounted(parts, i + 1)
         IN  IF later # 0 THEN later
             ELSE IF parts[i].mountpoint = FILESYSTEM THEN i ELSE 0

\* the first partition mounted at FILESYSTEM decides; 0 when there is none
RECURSIVE FirstMounted(_, _)
FirstMounted(parts, i) ==
    IF i > Len(parts) THEN 0
    ELSE IF parts[i].mountpoint = FILESYSTEM THEN i
    ELSE FirstMounted(parts, i + 1)

(* ----------------------------------------------------------------- state *)

VARIABLES
    pc,        \* position of the script
    exit,      \* << >> while running, <<code>> once the process has ended
    backoff,   \* the global backoff index
    snap,      \* telemetry read by this call of bal_chunk
    free,      \* bal_chunk's list "free"
    least,     \* bal_chunk's least_empty_dev_id / _path / _unallocated
    target,    \* devid given to the running "btrfs balance"
    inflight,  \* balance commands started and not yet returned
    ret,       \* exit status of the last balance command
    callTime,  \* seconds the last balance command itself took
    elapsed,   \* time.time() - start when bal_chunk returned
    duration,  \* the main loop's "duration"
    slept,     \* the time.sleep calls of this iteration, in order
    mounts,    \* << >>, or <<the list psutil.disk_partitions() returned>>
    cache,     \* the lru_cache of fib
    fibArg,    \* argument of the last direct call of fib (-1: none yet)
    fibRes,    \* what that call returned
    fibHit,    \* whether its argument was in the cache
    prev,      \* backoff before the last adjustment
    runKind,   \* kind of the current run of equal outcomes
    runStart,  \* backoff when that run began
    runLen     \* length of that run

vars == <<pc, exit, backoff, snap, free, least, target, inflight, ret, callTime,
          elapsed, duration, slept, mounts, prev, runKind, runStart, runLen,
          cache, fibArg, fibRes, fibHit>>

memo == <<cache, fibArg, fibRes, fibHit>>

\* what one iteration leaves behind and the next one overwrites before reading
iter == <<ret, callTime, elapsed, duration>>

run == <<runKind, runStart, runLen>>

Init ==
    /\ pc = "start"
    /\ exit = << >>
    /\ backoff = 0
    /\ snap = << >>
    /\ free = << >>
    /\ least = NoDevice
    /\ target = 0
    /\ inflight = 0
    /\ ret = 0
    /\ callTime = 0
    /\ elapsed = 0
    /\ duration = 0
    /\ slept = << >>
    /\ mounts = << >>
    /\ cache = EmptyCache
    /\ fibArg = -1
    /\ fibRes = 0
    /\ fibHit = FALSE
    /\ prev = 0
    /\ runKind = "none"
    /\ runStart = 0
    /\ runLen = 0

(* --------------------------------------------------------------- actions *)

\* The process ends with status `code`.  Its memory is gone: only the exit status
\* and the telemetry it last read (kept as the record of why it ended) remain.
Exit(code) ==
    /\ pc' = "exited"
    /\ exit' = <<code>>
    /\ backoff' = 0
    /\ prev' = 0
    /\ runKind' = "none"
    /\ runStart' = 0
    /\ runLen' = 0

Continue(to) ==
    /\ pc' = to
    /\ UNCHANGED <<exit, backoff, prev, run>>

\* the for/else over psutil.disk_partitions(), then "backoff = 0"
MountCheck ==
    /\ pc = "start"
    /\ \E parts \in PartitionLists :
         /\ mounts' = <<parts>>
         /\ LET hit == FirstMounted(parts, 1)
            IN  IF hit # 0 /\ parts[hit].fstype = "btrfs"
                THEN Continue("loop")
                ELSE Exit(-1)
    /\ UNCHANGED <<snap, free, least, target, inflight, iter, slept, memo>>

\* "start = time.time()" and bal_chunk up to and into the balance command:
\* subprocess.getstatusoutput(cmd) is entered and blocks
TakeSnapshot ==
    /\ pc = "loop"
    /\ \E devs \in Snapshots :
         /\ snap' = devs
         /\ IF Len(devs) = 0
            THEN \* x = [] for the empty output: x[1] raises IndexError
                 /\ free' = << >> /\ least' = NoDevice
                 /\ Exit(1)
                 /\ UNCHANGED <<target, inflight>>
            ELSE /\ free' = FreeList(devs)
                 /\ least' = LeastEmpty(devs)
                 /\ IF StdevRaises(FreeList(devs))
                    THEN \* uncaught StatisticsError
                         Exit(1) /\ UNCHANGED <<target, inflight>>
                    ELSE IF StdevBelow(FreeList(devs), STDEV_LIMIT)
                    THEN \* sys.exit()
                         Exit(0) /\ UNCHANGED <<target, inflight>>
                    ELSE /\ target' = LeastEmpty(devs).devid
                         /\ inflight' = Started(inflight)
                         /\ Continue("running")
    /\ mounts' = << >>   \* the partition list is not read again
    /\ UNCHANGED <<iter, slept, memo>>

\* as BalanceReturn for a call that raises on a non-zero status (check_output):
\* the uncaught CalledProcessError ends the process
BalanceReturnChecked ==
    /\ pc = "running"
    /\ \E r \in RetCodes, tt \in TelemetryTimes, tb \in BalanceTimes :
         /\ ret' = r
         /\ callTime' = tb
         /\ elapsed' = tt + tb
         /\ IF r # 0 THEN Exit(1) ELSE Continue("measure")
    /\ inflight' = Returned(inflight)
    /\ snap' = << >>
    /\ free' = << >>
    /\ least' = NoDevice
    /\ target' = 0
    /\ UNCHANGED <<duration, mounts, slept, memo>>

\* The command returns; on a non-zero status bal_chunk sleeps 30 s; bal_chunk
\* returns and its locals are gone.  tt is the time the telemetry read took, tb
\* the time the command took: nothing reads the clock between "start" and here.
BalanceReturn ==
    /\ pc = "running"
    /\ \E r \in RetCodes, tt \in TelemetryTimes, tb \in BalanceTimes :
         /\ ret' = r
         /\ callTime' = tb
         /\ elapsed' = tt + tb + (IF r # 0 THEN COOLDOWN ELSE 0)
         /\ slept' = IF r # 0 THEN Append(slept, COOLDOWN) ELSE slept
    /\ inflight' = Returned(inflight)
    /\ snap' = << >>
    /\ free' = << >>
    /\ least' = NoDevice
    /\ target' = 0
    /\ Continue("measure")
    /\ UNCHANGED <<duration, mounts, memo>>

Outcome(r, dur) ==
    IF r # 0 THEN "failed" ELSE IF dur > CHUNK_TIMEOUT THEN "slow" ELSE "fast"

\* "duration = time.time() - start", the backoff adjustment, fib_sleep entered
Adjust ==
    /\ pc = "measure"
    /\ duration' = elapsed
    /\ backoff' = NextBackoff(backoff, elapsed)
    /\ slept' = Append(slept, SleepAfter(backoff, backoff'))
    /\ prev' = backoff
    /\ LET kind == Outcome(ret, elapsed)
       IN  IF kind = "failed"
           THEN runKind' = "none" /\ runStart' = 0 /\ runLen' = 0
           ELSE IF kind = runKind /\ runLen < MaxRun
           THEN runKind' = runKind /\ runStart' = runStart /\ runLen' = runLen + 1
           ELSE runKind' = kind /\ runStart' = backoff /\ runLen' = 1
    /\ pc' = "sleep"
    /\ UNCHANGED <<exit, snap, free, least, target, inflight, ret, callTime, elapsed,
                   mounts, memo>>

\* time.sleep(seconds) of fib_sleep returns; next turn of "while True", whose
\* first statements overwrite what the finished turn left
Wake ==
    /\ pc = "sleep"
    /\ pc' = "loop"
    /\ ret' = 0
    /\ callTime' = 0
    /\ elapsed' = 0
    /\ duration' = 0
    /\ slept' = << >>
    /\ prev' = backoff
    /\ UNCHANGED <<exit, backoff, snap, free, least, target, inflight, mounts, run,
                   memo>>

Next ==
    \/ MountCheck
    \/ TakeSnapshot
    \/ BalanceReturn
    \/ Adjust
    \/ Wake

Spec == Init /\ [][Next]_vars

\* fib on its own: any sequence of direct calls fib(n), each seeing the cache
\* the earlier calls left
FibCall ==
    /\ \E n \in 0..MaxFibArg :
         /\ fibArg' = n
         /\ fibHit' = (n \in DOMAIN cache)
         /\ fibRes' = cached_fib(cache, n).v
         /\ cache' = cached_fib(cache, n).c
    /\ UNCHANGED <<pc, exit, backoff, snap, free, least, target, inflight, ret,
                   callTime, elapsed, duration, slept, mounts, prev, run>>

SpecFib == Init /\ [][FibCall]_vars

(* ------------------------------------------- reference definitions *)

\* the sleep sequence as the specification states it: seq(0) = seq(1) = 1,
\* seq(n) = seq(n-1) + seq(n-2); SeqTable[i + 1] is seq(i)
RECURSIVE SeqBuild(_)
SeqBuild(n) ==
    IF n <= 1 THEN <<1>>
    ELSE IF n = 2 THEN <<1, 1>>
    ELSE LET t == SeqBuild(n - 1) IN Append(t, t[n - 1] + t[n - 2])

SeqTable == SeqBuild(SeqLen)

seq(i) == SeqTable[i + 1]

\* the index at which slow outcomes stop raising the backoff
Cap == CHOOSE i \in 0..(SeqLen - 2) : seq(i) < MAX_SLEEP /\ seq(i + 1) >= MAX_SLEEP

Min(a, b) == IF a < b THEN a ELSE b

Max(a, b) == IF a > b THEN a ELSE b

\* sample variance by pairs: var = (sum over i < j of (x_i - x_j)^2) / (n * (n - 1))
PairSum(devs) ==
    LET n == Len(devs)
        u(i) == devs[i].size - devs[i].used
        pairs == {p \in (1..n) \X (1..n) : p[1] < p[2]}
        sq == [p \in pairs |-> (u(p[1]) - u(p[2])) * (u(p[1]) - u(p[2]))]
        RECURSIVE Total(_)
        Total(P) == IF P = {} THEN 0
                    ELSE LET p == CHOOSE q \in P : TRUE IN sq[p] + Total(P \ {p})
    IN  Total(pairs)

\* sample standard deviation of capacity - used strictly below t
DispersionBelow(devs, t) == PairSum(devs) < t * t * Len(devs) * (Len(devs) - 1)

DispersionEquals(devs, t) == PairSum(devs) = t * t * Len(devs) * (Len(devs) - 1)

Thresholds == 1..(2 * STDEV_LIMIT)

Adjusted == pc = "sleep"

\* the largest index whose sleep time is below MAX_SLEEP
LargestBelow ==
    CHOOSE i \in 0..(SeqLen - 1) :
        /\ seq(i) < MAX_SLEEP
        /\ \A j \in (i + 1)..(SeqLen - 1) : seq(j) >= MAX_SLEEP

\* position of the first device with the least capacity - used
FirstLeast(devs) ==
    CHOOSE k \in 1..Len(devs) :
        /\ \A j \in 1..Len(devs) :
             devs[k].size - devs[k].used <= devs[j].size - devs[j].used
        /\ \A j \in 1..(k - 1) :
             devs[k].size - devs[k].used < devs[j].size - devs[j].used

\* the first partition mounted at FILESYSTEM has one of the given types
MountedAs(parts, fstypes) ==
    \E i \in 1..Len(parts) :
        /\ parts[i].mountpoint = FILESYSTEM
        /\ parts[i].fstype \in fstypes
        /\ \A j \in 1..(i - 1) : parts[j].mountpoint # FILESYSTEM

(* ---------------------------------------------------------------- claims *)

\* C1: after an iteration whose balance command failed, the backoff index equals
\* the index before the iteration.
C1_FailureKeepsIndex == (Adjusted /\ ret # 0) => backoff = prev

\* C2 as stated: the index is never below 0 and is never raised to a value i
\* with seq(i + 1) >= MAX_SLEEP.
C2_NeverRaisedNextToCap ==
    /\ backoff >= 0
    /\ (Adjusted /\ backoff > prev) => seq(backoff + 1) < MAX_SLEEP

\* C2 amended: the index is never below 0 and is never raised to a value i
\* with seq(i) >= MAX_SLEEP.
C2_IndexBounds ==
    /\ backoff >= 0
    /\ (Adjusted /\ backoff > prev) => seq(backoff) < MAX_SLEEP

C2_Witness == Adjusted /\ backoff > prev /\ seq(backoff + 1) >= MAX_SLEEP

\* C3: after a successful unit with duration > CHUNK_TIMEOUT the index is
\* index + 1 when seq(index + 1) < MAX_SLEEP and the unchanged index otherwise.
C3_SlowTransition ==
    (Adjusted /\ ret = 0 /\ duration > CHUNK_TIMEOUT) =>
        backoff = (IF seq(prev + 1) < MAX_SLEEP THEN prev + 1 ELSE prev)

C3_Witness ==
    Adjusted /\ ret = 0 /\ duration > CHUNK_TIMEOUT /\ backoff = prev /\ prev = Cap

\* C4: after a successful unit with duration <= CHUNK_TIMEOUT the index is
\* index - 2 when index > 1, 0 when index is 1 or 0, whatever MAX_SLEEP allows.
C4_FastTransition ==
    (Adjusted /\ ret = 0 /\ duration <= CHUNK_TIMEOUT) =>
        backoff = (IF prev > 1 THEN prev - 2 ELSE 0)

C4_Witness ==
    Adjusted /\ ret = 0 /\ duration = CHUNK_TIMEOUT /\ prev = Cap /\ backoff = Cap - 2

\* C5: after k consecutive slow units from index s the index is min(s + k, Cap):
\* it rises by one per unit up to the cap and stays there; after k consecutive
\* fast units from index s it is max(s - 2k, 0): it falls on every unit while
\* above 0, is 0 exactly from unit ceil(s / 2) on, and stays 0.
C5_Runs ==
    /\ runKind = "slow" => backoff = Min(runStart + runLen, Cap)
    /\ runKind = "fast" =>
         /\ backoff = Max(runStart - 2 * runLen, 0)
         /\ (backoff = 0) <=> (runLen >= (runStart + 1) \div 2)

C5_Witness ==
    runKind = "slow" /\ runStart = 0 /\ runLen = Cap + 1 /\ backoff = Cap

C5_WitnessFast ==
    runKind = "fast" /\ runStart = Cap /\ runLen = (Cap + 1) \div 2 + 1 /\ backoff = 0

\* C6: a converged snapshot ends the process with status 0 in that iteration,
\* with no balance command started and no sleep; and status 0 is the end of an
\* iteration whose snapshot is converged.
C6_ConvergedExit ==
    /\ (Len(snap) >= 2 /\ DispersionBelow(snap, STDEV_LIMIT)) =>
         (pc = "exited" /\ exit = <<0>>)
    /\ exit = <<0>> =>
         /\ Len(snap) >= 2 /\ DispersionBelow(snap, STDEV_LIMIT)
         /\ inflight = 0 /\ target = 0 /\ slept = << >>

C6_Witness == exit = <<0>> /\ Len(snap) = MaxDevs /\ PairSum(snap) > 0

\* C7: for a snapshot of at least two devices the list tested is capacity - used
\* of every device, and for every positive threshold the test is true exactly
\* when the sample standard deviation (n - 1) of that list is strictly below the
\* threshold; the loop goes on when the dispersion equals STDEV_LIMIT.
C7_Converged ==
    Len(snap) >= 2 =>
        /\ free = [i \in 1..Len(snap) |-> snap[i].size - snap[i].used]
        /\ \A t \in Thresholds : StdevBelow(free, t) <=> DispersionBelow(snap, t)
        /\ (pc = "running") <=> ~DispersionBelow(snap, STDEV_LIMIT)

C7_Witness ==
    pc = "running" /\ Len(snap) >= 2 /\ DispersionEquals(snap, STDEV_LIMIT)

\* C8: for a non-empty snapshot the selected device has the least capacity - used,
\* it is the earliest device with that value, and the snapshot determines it.
C8_LeastFree ==
    Len(snap) >= 1 =>
        \E k \in 1..Len(snap) :
            /\ \A j \in 1..Len(snap) :
                 snap[k].size - snap[k].used <= snap[j].size - snap[j].used
            /\ \A j \in 1..(k - 1) :
                 snap[k].size - snap[k].used < snap[j].size - snap[j].used
            /\ least = [devid |-> snap[k].devid, path |-> snap[k].path, inf |-> FALSE,
                        unallocated |-> snap[k].size - snap[k].used]
            /\ pc = "running" => target = snap[k].devid

C8_Witness ==
    /\ pc = "running" /\ Len(snap) = 3
    /\ free[2] < free[1] /\ free[3] = free[2]
    /\ target = snap[2].devid

\* C9: at most one balance command is in flight; a command is started only when
\* none is in flight, at the top of the loop, and the top of the loop is reached
\* only from start-up or from a completed sleep.
C9_OneInFlight ==
    /\ [](inflight \in {0, 1} /\ (inflight = 1 <=> pc = "running"))
    /\ [][/\ inflight' > inflight => (inflight = 0 /\ pc = "loop")
          /\ (pc' = "loop" /\ pc # "loop") => (pc \in {"start", "sleep"} /\ inflight = 0)
         ]_vars

C9_Witness == pc = "running" /\ inflight = 1 /\ backoff = Cap

\* C10: after a failed balance command the only sleep of the iteration is the
\* 30 s cooldown.
C10_FailurePauseIsCooldown == (Adjusted /\ ret # 0) => slept = <<COOLDOWN>>

\* C11: after a successful unit the loop sleeps once, for seq of the index as
\* adjusted by that unit, before the next snapshot.
C11_SleepsForUpdatedIndex ==
    (Adjusted /\ ret = 0) => slept = <<seq(backoff)>>

C11_Witness ==
    Adjusted /\ ret = 0 /\ backoff > prev /\ seq(backoff) # seq(prev)
        /\ slept = <<seq(backoff)>>

\* C12: the duration that decides slow or fast is the time of the balance
\* command alone, without the telemetry read and without the cooldown.
C12_DurationIsCallTime == Adjusted => duration = callTime

\* C13: when no partition is mounted at FILESYSTEM, or the partition found
\* there is not btrfs, the process ends with a non-zero status with no snapshot
\* taken, no balance command started and no sleep; the loop is entered only
\* with a btrfs partition found at FILESYSTEM.
C13_MountCheck ==
    /\ pc = "start" => (snap = << >> /\ inflight = 0 /\ slept = << >>)
    /\ Len(mounts) = 1 =>
         /\ MountedAs(mounts[1], {"btrfs"}) => (pc = "loop" /\ exit = << >>)
         /\ ~MountedAs(mounts[1], {"btrfs"}) =>
              /\ pc = "exited" /\ Len(exit) = 1 /\ exit[1] # 0
              /\ snap = << >> /\ free = << >> /\ target = 0 /\ inflight = 0
              /\ slept = << >>
    /\ (pc = "exited" /\ snap = << >> /\ exit = <<-1>>) => Len(mounts) = 1

C13_Witness ==
    /\ pc = "exited" /\ Len(mounts) = 1 /\ Len(mounts[1]) = 2
    /\ MountedAs(mounts[1], {"ext4"})
    /\ mounts[1][2] = [mountpoint |-> FILESYSTEM, fstype |-> "btrfs"]

\* C14: a snapshot of fewer than two devices ends the process in that iteration
\* with a non-zero status, no balance command started and no sleep; nothing
\* follows the end of the process, so the snapshot is not read again.
C14_TooFewDevices ==
    [][/\ (pc = "loop" /\ Len(snap') < 2) =>
            /\ pc' = "exited" /\ Len(exit') = 1 /\ exit'[1] # 0
            /\ inflight' = 0 /\ target' = 0 /\ slept' = << >>
       /\ pc # "exited"
      ]_vars

C14_Witness == pc = "exited" /\ exit = <<1>> /\ Len(snap) = 1 /\ inflight = 0

\* C15: a failed balance command does not end the process: the script is then
\* at the adjustment, which it can take, then in the sleep, which returns, then
\* at the top of the loop, where it takes a new snapshot.  The process ends only
\* in the mount check or in the snapshot step: with status 0 on a converged
\* snapshot, -1 on a bad mount, 1 on fewer than two devices.
C15_FailureAbsorbed ==
    /\ (pc \in {"measure", "sleep"} /\ ret # 0) => exit = << >>
    /\ pc = "measure" => ENABLED Adjust
    /\ pc = "sleep" => ENABLED Wake
    /\ pc = "loop" => ENABLED TakeSnapshot
    /\ pc = "exited" =>
         /\ ret = 0 /\ inflight = 0 /\ slept = << >>
         /\ \/ exit = <<0>> /\ Len(snap) >= 2 /\ DispersionBelow(snap, STDEV_LIMIT)
            \/ exit = <<-1>> /\ Len(mounts) = 1 /\ ~MountedAs(mounts[1], {"btrfs"})
            \/ exit = <<1>> /\ Len(snap) < 2 /\ mounts = << >>

C15_Witness ==
    pc = "running" /\ runKind = "none" /\ backoff > 0 /\ Len(snap) >= 2

\* C16: every value fib returns or caches obeys fib(0) = fib(1) = 1 and
\* fib(n) = fib(n-1) + fib(n-2); a call returns the same value whether its
\* argument was cached before the call or not, namely seq of the argument.
C16_Sequence ==
    /\ \A k \in DOMAIN cache :
         /\ k < 2 => cache[k] = 1
         /\ k >= 2 => /\ {k - 1, k - 2} \subseteq DOMAIN cache
                      /\ cache[k] = cache[k - 1] + cache[k - 2]
    /\ fibArg >= 0 =>
         /\ fibRes = seq(fibArg)
         /\ fibRes = fib(fibArg)
         /\ cache[fibArg] = fibRes

C16_Witness ==
    fibHit /\ fibArg = MaxFibArg /\ fibRes = seq(MaxFibArg) /\ fibRes > MAX_SLEEP

\* C17: the index is 0 or its sleep time is below MAX_SLEEP, so every adaptive
\* sleep is shorter than MAX_SLEEP; the index never passes the largest i with
\* seq(i) < MAX_SLEEP, and that many consecutive slow units reach it.
C17_SleepBelowMax ==
    /\ backoff = 0 \/ seq(backoff) < MAX_SLEEP
    /\ backoff <= LargestBelow
    /\ Adjusted => slept[Len(slept)] < MAX_SLEEP
    /\ (runKind = "slow" /\ runLen >= LargestBelow) => backoff = LargestBelow

C17_Witness ==
    /\ Adjusted /\ runKind = "slow" /\ runLen >= LargestBelow
    /\ backoff = LargestBelow /\ slept = <<seq(LargestBelow)>>

\* C18: a balance command is started with nothing held over from an earlier
\* iteration, on a snapshot read in the same step and judged not converged, for
\* the first least-free device of that snapshot.
C18_FreshTarget ==
    [][inflight' > inflight =>
         /\ snap = << >> /\ free = << >> /\ least = NoDevice /\ target = 0
         /\ Len(snap') >= 2 /\ ~DispersionBelow(snap', STDEV_LIMIT)
         /\ target' = snap'[FirstLeast(snap')].devid
      ]_vars

C18_Witness ==
    /\ pc = "running" /\ backoff > 0 /\ Len(snap) = 3 /\ target = snap[3].devid
    /\ free[3] < free[1] /\ free[3] < free[2]

====
